---- MODULE Spec2Model ----
(***************************************************************************)
(* Model of the MAVLink <-> Socket.IO bridge:                              *)
(*   src/buffer_manager.py       BufferManager                             *)
(*   src/socketio_connection.py  SocketIOConnection                        *)
(*   src/core.py                 operation supervisor and relay loop       *)
(*   src/operations/color_tracker.py  Target, TargetManager                *)
(*                                                                         *)
(* Time is the value of time.time(), counted in whole ticks.  Telemetry    *)
(* records are numbered 1, 2, 3, ... in the order add_message receives     *)
(* them, so a record's value is its arrival rank.                          *)
(*                                                                         *)
(* Each component has its own specification, in which its methods are      *)
(* called in any order and at any time, with the clock and the transport   *)
(* moving in between: SpecBuffer (BufferManager and flush_buffer),         *)
(* SpecLink (check_persistent_disconnect and _on_connect) and SpecOps      *)
(* (handle_start_operation and handle_stop_operation).  The call sequences *)
(* of the relay loop of main are among those sequences.                    *)
(* SpecMain adds the exits of the relay loop and the shutdown procedure of *)
(* main to SpecOps, SpecRequests has the _on_request_* callbacks and       *)
(* emit_response, SpecTracker has TargetManager.update.                    *)
(***************************************************************************)
EXTENDS Integers, Sequences, FiniteSets, TLC

\* ------------------------------------------------------------------ bounds
MaxTime == 4
MaxRecords == 4
MaxBufferSize == 2
MaxFlushTimeout == 1
MaxCheckInterval == 1
MaxDisconnectTime == 3
MaxDuration == 6
MaxInstances == 2
MaxRequests == 2
MaxTargets == 2
MaxConfirmationFrames == 2
MaxUnseenFrames == 2
MaxPuts == 2

VARIABLES
    now,             \* the clock read by time.time()
    connected,       \* client.connected of the socketio client
    buffer,          \* BufferManager.buffer
    last_msg_time,   \* BufferManager.last_msg_time
    buffer_size,     \* BufferManager.buffer_size
    flush_timeout,   \* BufferManager.flush_timeout
    emitted,         \* payloads of the mavlink_message events the transport accepted
    arrived,         \* number of add_message calls so far (rank of the newest record)
    since_clear,     \* number of add_message calls since construction or the last clear_buffer
    last_touch,      \* clock value at the last add_message or clear_buffer (construction at first)
    check_interval,       \* SocketIOConnection._check_interval
    max_disconnect_time,  \* SocketIOConnection._max_disconnect_time
    last_check_time,      \* SocketIOConnection._last_check_time
    disconnect_duration,  \* SocketIOConnection._disconnect_duration
    check_pc,             \* where the relay thread is in check_persistent_disconnect
    current_time,         \* local current_time of check_persistent_disconnect
    accrued,              \* value of the right-hand side of line 89, not yet stored
    connect_event,        \* a 'connect' event waits for its callback _on_connect
    real_disconnected,    \* ticks the transport spent disconnected since a check last saw it connected
    lost_reported,        \* check_persistent_disconnect has returned False at least once
    mav_ready,            \* mav_copter.is_ready()
    active_operations,    \* core.active_operations: operation id -> instance
    running,              \* the instances whose background thread runs
    created,              \* number of instances whose start() has returned true
    request,              \* the data of the request the supervisor handled last
    response,             \* what the supervisor handler called last returned
    stop_calls,           \* the instances whose stop() has been invoked
    main_pc,              \* where the main thread is: relay loop, shutdown, ended
    exit_reason,          \* why the relay loop was left
    to_stop,              \* the part of main's registry snapshot not yet stopped
    disconnect_called,    \* main has called socket_client.disconnect()
    req_pc,               \* where the transport thread is in an _on_request_* callback
    req_kind,             \* the request event being answered, or answered last
    pending_response,     \* the success field of the dictionary handed to emit_response
    received,             \* number of request events delivered so far
    response_events,      \* response events emitted for the request delivered last
    targets,                  \* TargetManager.targets
    output_queue,             \* the records TargetManager has put in its output queue
    confirmation_frames,      \* TargetManager.confirmation_frames
    pixel_distance_threshold, \* TargetManager.pixel_distance_threshold
    unseen_frames_threshold,  \* TargetManager.unseen_frames_threshold
    next_id,                  \* number of Target objects created so far
    streak,                   \* number of update cycles so far, while each had one detection, with a fix, at streak_pixel
    streak_pixel,             \* the pixel of the first cycle's single detection
    streak_broken,            \* some cycle was not of that kind, or came after confirmation_frames of them
    confirmed,                \* ids of the targets whose counter was >= confirmation_frames in the second loop of some cycle
    touches,                  \* id of a tracked target -> number of detections of the last cycle that updated or created it
    absent,                   \* target id -> consecutive cycles, up to the last, with no detection for it (counted up to MaxUnseenFrames + 1)
    discarded,                \* ids of the targets that a detection without fix of the last cycle was within the threshold of
    frame_width,              \* frame.shape[1] of the frames of the video stream
    op_class,             \* the class of the operation instance followed: color_tracker or serial_listener
    device_available,     \* the instance's input device (serial port, video stream) can be opened
    is_running,           \* the instance's is_running
    op_thread,            \* the instance's background thread: none, at the open of the video, in the loop, dead
    resource_open,        \* the serial port or the video capture of the instance is open
    start_returned,       \* what the last start() of the instance returned
    exit_cause,           \* why the background loop was left last
    stop_pc,              \* where a stop() call on the instance is
    stopped_after_failure, \* a stop() called after the loop was left on a read failure has returned
    operation_output_queue, \* core.operation_output_queue
    put_count,            \* operation id -> number of records the operation has put
    relay_pc,             \* where the relay thread is in emit_status
    status_op,            \* local status_op of main
    status_emitted,       \* the records of the status_operation events the transport accepted
    call             \* the call that returned last: its name and return value

bufvars == <<buffer, last_msg_time, buffer_size, flush_timeout, emitted,
             arrived, since_clear, last_touch>>

linkvars == <<check_interval, max_disconnect_time, last_check_time,
              disconnect_duration, check_pc, current_time, accrued, lost_reported>>

opsvars == <<mav_ready, active_operations, running, created, request, response,
             stop_calls>>

mainvars == <<main_pc, exit_reason, to_stop, disconnect_called>>

reqvars == <<req_pc, req_kind, pending_response, received, response_events>>

trackvars == <<targets, output_queue, confirmation_frames, pixel_distance_threshold,
               unseen_frames_threshold, next_id, streak, streak_pixel,
               streak_broken, confirmed, touches, absent, discarded, frame_width>>

instvars == <<op_class, device_available, is_running, op_thread, resource_open,
              start_returned, exit_cause, stop_pc, stopped_after_failure>>

relayvars == <<operation_output_queue, put_count, relay_pc, status_op, status_emitted>>

envvars == <<now, connected, connect_event, real_disconnected>>

\* What the actions of one component leave alone.
notbuf == <<connect_event, real_disconnected, linkvars, opsvars, mainvars, reqvars,
            trackvars, instvars, relayvars>>
notlink == <<bufvars, opsvars, mainvars, reqvars, trackvars, instvars, relayvars>>
notops == <<envvars, bufvars, linkvars, mainvars, reqvars, trackvars, instvars,
            relayvars, call>>
notenv == <<bufvars, linkvars, opsvars, mainvars, reqvars, trackvars, instvars,
            relayvars, call>>
notreq == <<bufvars, linkvars, opsvars, mainvars, trackvars, instvars, relayvars,
            call>>
nottrack == <<envvars, bufvars, linkvars, opsvars, mainvars, reqvars, instvars,
              relayvars, call>>
notinst == <<envvars, bufvars, linkvars, opsvars, mainvars, reqvars, trackvars,
             relayvars, call>>
notrelay == <<bufvars, linkvars, opsvars, mainvars, reqvars, trackvars, instvars,
              call>>

vars == <<envvars, bufvars, linkvars, opsvars, mainvars, reqvars, trackvars,
          instvars, relayvars, call>>

Min(a, b) == IF a < b THEN a ELSE b

Range(s) == {s[i] : i \in 1..Len(s)}

\* ---------------------------------------------------------- BufferManager

\* add_message without the eviction of line 39-40.
add_message_no_evict(buf, msg, size) == Append(buf, msg)

\* The buffer after add_message(msg): append, then pop(0) if over buffer_size.
add_message_buffer(buf, msg, size) ==
    LET appended == Append(buf, msg)
    IN  IF Len(appended) > size THEN Tail(appended) ELSE appended

\* The return value of add_message, computed on the buffer it leaves.
add_message_return(buf, size) == Len(buf) >= size

\* check_timeout comparing with >= instead of >.
check_timeout_ge(buf, t, last, timeout) == (t - last >= timeout) /\ (buf # <<>>)

\* check_timeout: is_timed_out and has_messages.
check_timeout(buf, t, last, timeout) == (t - last > timeout) /\ (buf # <<>>)

is_empty(buf) == buf = <<>>

\* A get_buffer_content that returns the oldest record alone.
get_buffer_content_oldest(buf) == <<Head(buf)>>

get_buffer_content(buf) == buf

\* ----------------------------------------------- SocketIOConnection.flush

\* flush_buffer that clears the buffer although the emit raised.
flush_buffer_clear_on_error(buf, conn, emit_ok) ==
    IF is_empty(buf) \/ ~conn
    THEN [ret |-> TRUE, sent |-> <<>>, cleared |-> FALSE]
    ELSE IF emit_ok
         THEN [ret |-> TRUE, sent |-> <<get_buffer_content(buf)>>, cleared |-> TRUE]
         ELSE [ret |-> FALSE, sent |-> <<>>, cleared |-> TRUE]

\* flush_buffer that emits the records newest first.
flush_buffer_reversed(buf, conn, emit_ok) ==
    IF is_empty(buf) \/ ~conn
    THEN [ret |-> TRUE, sent |-> <<>>, cleared |-> FALSE]
    ELSE IF emit_ok
         THEN [ret |-> TRUE,
               sent |-> <<[i \in 1..Len(buf) |-> buf[Len(buf) + 1 - i]]>>,
               cleared |-> TRUE]
         ELSE [ret |-> FALSE, sent |-> <<>>, cleared |-> FALSE]

\* flush_buffer(buffer_manager): what it returns, the payloads it hands to
\* client.emit that the transport accepts (none or one), and whether it calls
\* clear_buffer.  emit_ok = FALSE is client.emit raising.
flush_buffer(buf, conn, emit_ok) ==
    IF is_empty(buf) \/ ~conn
    THEN [ret |-> TRUE, sent |-> <<>>, cleared |-> FALSE]
    ELSE IF emit_ok
         THEN [ret |-> TRUE, sent |-> <<get_buffer_content(buf)>>, cleared |-> TRUE]
         ELSE [ret |-> FALSE, sent |-> <<>>, cleared |-> FALSE]

\* ------------------------- SocketIOConnection.check_persistent_disconnect

\* The sampling step without the reset of line 96.
check_sample_no_reset(t, last, interval, conn, dur) ==
    IF t - last > interval
    THEN IF ~conn
         THEN [branch |-> "accrue", dur |-> dur + (t - last)]
         ELSE [branch |-> "reset", dur |-> dur]
    ELSE [branch |-> "skip", dur |-> dur]

\* The sampling step storing the last interval alone, not the sum.
check_sample_last_interval(t, last, interval, conn, dur) ==
    IF t - last > interval
    THEN IF ~conn
         THEN [branch |-> "accrue", dur |-> t - last]
         ELSE [branch |-> "reset", dur |-> 0]
    ELSE [branch |-> "skip", dur |-> dur]

\* Lines 86-89 and 94-96: the throttle test, the sample of client.connected,
\* and the value to be stored in _disconnect_duration.
check_sample(t, last, interval, conn, dur) ==
    IF t - last > interval
    THEN IF ~conn
         THEN [branch |-> "accrue", dur |-> dur + (t - last)]
         ELSE [branch |-> "reset", dur |-> 0]
    ELSE [branch |-> "skip", dur |-> dur]

\* The test of line 91 failing as soon as any disconnected time has accrued.
threshold_reached_early(dur, max) == dur > 0

\* Line 91: _disconnect_duration >= _max_disconnect_time.
threshold_reached(dur, max) == dur >= max

\* --------------------------------------------------- operation supervisor

\* Operation ids a request can carry.
Ids == {"a", "b"}

\* The request carries no such key.
Absent == "<absent>"

\* Python's None.
PyNone == "<None>"

\* Operation names a request can carry: two names configured for the classes
\* of operations/, one configured for a class written to the supervisor's
\* calling convention, one configured with a path that does not import, one
\* that is not configured.
OpNames == {"color_tracker", "serial_listener", "custom", "unloadable", "unknown"}

\* OPERATION_MAP.get(op_name): the configured class path, "" when there is none.
OPERATION_MAP(op_name) ==
    CASE op_name = "color_tracker" -> "operations.color_tracker.OperationColorTracker"
      [] op_name = "serial_listener" -> "operations.serial_listener.OperationSerialListener"
      [] op_name = "custom" -> "operations.custom.OperationCustom"
      [] op_name = "unloadable" -> "operations.missing.OperationMissing"
      [] OTHER -> ""

\* get_operation_class(class_path): the class, "None" when the import fails.
get_operation_class(class_path) ==
    CASE class_path = "operations.color_tracker.OperationColorTracker" -> "OperationColorTracker"
      [] class_path = "operations.serial_listener.OperationSerialListener" -> "OperationSerialListener"
      [] class_path = "operations.custom.OperationCustom" -> "OperationCustom"
      [] OTHER -> "None"

\* Number of arguments handle_start_operation passes to the constructor.
ArgsPassed == 5

\* Number of parameters the class's __init__ takes after self.
InitParams(cls) ==
    CASE cls = "OperationColorTracker" -> 4
      [] cls = "OperationSerialListener" -> 4
      [] OTHER -> ArgsPassed

\* data.get("id", "None") of handle_start_operation.
start_op_id(id) == IF id = Absent THEN "None" ELSE id

\* data.get("id") of handle_stop_operation.
stop_op_id(id) == IF id = Absent THEN PyNone ELSE id

Failure(h, op_id, error) ==
    [handler |-> h, success |-> FALSE, id |-> op_id, error |-> error, writes |-> FALSE]

\* handle_start_operation registering the instance before it looks at what
\* start() returned.
handle_start_operation_register_first(op_name, op_id, ready, ctor_raises, start_outcome) ==
    LET class_path == OPERATION_MAP(op_name)
        cls == get_operation_class(class_path)
    IN  IF class_path = "" THEN Failure("start", op_id, "Unknown operation")
        ELSE IF cls = "None" THEN Failure("start", op_id, "Operation class not found")
        ELSE IF ~ready THEN Failure("start", op_id, "MAVLink connection not available.")
        ELSE IF InitParams(cls) # ArgsPassed \/ ctor_raises
             THEN Failure("start", op_id, "Internal bridge error")
        ELSE IF start_outcome = "true"
             THEN [handler |-> "start", success |-> TRUE, id |-> op_id, error |-> "",
                   writes |-> TRUE]
        ELSE IF start_outcome = "false"
             THEN [Failure("start", op_id, "Operation failed to start.")
                       EXCEPT !.writes = TRUE]
        ELSE Failure("start", op_id, "Internal bridge error")

\* handle_start_operation(data): the response dictionary, and whether line 138
\* (the write to active_operations) runs.  ctor_raises: the constructor
\* raises for a reason of its own; start_outcome: what the instance's start()
\* does.
handle_start_operation(op_name, op_id, ready, ctor_raises, start_outcome) ==
    LET class_path == OPERATION_MAP(op_name)
        cls == get_operation_class(class_path)
    IN  IF class_path = "" THEN Failure("start", op_id, "Unknown operation")
        ELSE IF cls = "None" THEN Failure("start", op_id, "Operation class not found")
        ELSE IF ~ready THEN Failure("start", op_id, "MAVLink connection not available.")
        ELSE IF InitParams(cls) # ArgsPassed \/ ctor_raises
             THEN Failure("start", op_id, "Internal bridge error")
        ELSE IF start_outcome = "true"
             THEN [handler |-> "start", success |-> TRUE, id |-> op_id, error |-> "",
                   writes |-> TRUE]
        ELSE IF start_outcome = "false"
             THEN Failure("start", op_id, "Operation failed to start.")
        ELSE Failure("start", op_id, "Internal bridge error")

\* A handle_stop_operation that does not test whether the id is registered.
handle_stop_operation_no_lookup(op_id, registry, stop_outcome) ==
    IF stop_outcome = "raises"
    THEN Failure("stop", op_id, "Internal bridge error")
    ELSE [handler |-> "stop", success |-> TRUE, id |-> op_id, error |-> "",
          writes |-> TRUE]

\* handle_stop_operation(data): the response dictionary, and whether line 158
\* (del) runs.  stop_outcome: what the instance's stop() does.
handle_stop_operation(op_id, registry, stop_outcome) ==
    IF op_id \notin DOMAIN registry
    THEN Failure("stop", op_id, "Operation ID not found.")
    ELSE IF stop_outcome = "raises"
         THEN Failure("stop", op_id, "Internal bridge error")
         ELSE [handler |-> "stop", success |-> TRUE, id |-> op_id, error |-> "",
               writes |-> TRUE]

\* The values of a dictionary.
Values(d) == {d[k] : k \in DOMAIN d}

\* The dictionary without key k.
Without(d, k) == [x \in DOMAIN d \ {k} |-> d[x]]

\* ------------------------------------------------------- target tracking

\* Widths of the frame, in pixels; the frames are one pixel high.
FrameWidths == {2, 3}

\* Pixel coordinates of the detections in a frame of the given width.
Pixels(width) == {<<x, 0>> : x \in 0..(width - 1)}

\* Values of pixel_distance_threshold: under 1 only a detection at a
\* target's own pixel is associated with it, under 2 one at a neighbouring
\* pixel is too.
PixelThresholds == {1, 2}

\* Numbers of detections in one frame.
FrameSizes == {0, 1, 2}

\* One detection of a frame: its pixel, and whether calculate_target_gps
\* yields a fix for it.
Detections(width) == [pixel : Pixels(width), fix : BOOLEAN]

\* The square of math.hypot(p[0] - q[0], p[1] - q[1]).
Dist2(p, q) == (p[1] - q[1]) * (p[1] - q[1]) + (p[2] - q[2]) * (p[2] - q[2])

\* dist < threshold for a threshold that is not negative.
Within(p, q, threshold) == Dist2(p, q) < threshold * threshold

\* The ids of the targets of a list.
TargetIds(tgts) == {tgts[i].id : i \in 1..Len(tgts)}

\* Target(pixel_coords, gps_coords, confirmation_frames) with a fresh id.
NewTarget(id, pixel) ==
    [id |-> id, last_pixel_coords |-> pixel, confirmation_counter |-> 1,
     frames_unseen |-> 0, is_reported |-> FALSE]

\* Target.update(pixel_coords, gps_coords).
Target_update(t, pixel, frames) ==
    [t EXCEPT !.last_pixel_coords = pixel,
              !.frames_unseen = 0,
              !.confirmation_counter = IF @ <= frames THEN @ + 1 ELSE @]

\* A loop of find_closest_target in which a later target at the same least
\* distance replaces the earlier one.
RECURSIVE closest_from_last_tie(_, _, _, _, _, _)
closest_from_last_tie(tgts, k, pixel, threshold, closest_target, min_dist2) ==
    IF k > Len(tgts) THEN closest_target
    ELSE LET dist2 == Dist2(tgts[k].last_pixel_coords, pixel)
         IN  IF /\ Within(tgts[k].last_pixel_coords, pixel, threshold)
                /\ (min_dist2 = -1 \/ dist2 <= min_dist2)
             THEN closest_from_last_tie(tgts, k + 1, pixel, threshold, k, dist2)
             ELSE closest_from_last_tie(tgts, k + 1, pixel, threshold,
                                        closest_target, min_dist2)

\* The loop of find_closest_target from target k on: closest_target is the
\* index of the target found so far (0 for None) and min_dist2 the square of
\* min_dist (-1 for infinity).
RECURSIVE closest_from(_, _, _, _, _, _)
closest_from(tgts, k, pixel, threshold, closest_target, min_dist2) ==
    IF k > Len(tgts) THEN closest_target
    ELSE LET dist2 == Dist2(tgts[k].last_pixel_coords, pixel)
         IN  IF /\ Within(tgts[k].last_pixel_coords, pixel, threshold)
                /\ (min_dist2 = -1 \/ dist2 < min_dist2)
             THEN closest_from(tgts, k + 1, pixel, threshold, k, dist2)
             ELSE closest_from(tgts, k + 1, pixel, threshold,
                               closest_target, min_dist2)

\* find_closest_target(pixel_coords): the index of the target found, 0 for
\* None.
find_closest_target(tgts, pixel, threshold) ==
    closest_from(tgts, 1, pixel, threshold, 0, -1)

\* f with the count of key k raised by one.
Count(f, k) ==
    [x \in DOMAIN f \cup {k} |->
        IF x = k THEN (IF k \in DOMAIN f THEN f[k] + 1 ELSE 1) ELSE f[x]]

\* A first loop that associates detections without a fix as well.
RECURSIVE associate_without_fix_test(_, _, _, _, _, _, _, _)
associate_without_fix_test(dets, k, tgts, updated, touched, nid, threshold, frames) ==
    IF k > Len(dets)
    THEN [targets |-> tgts, updated |-> updated, touches |-> touched, next_id |-> nid]
    ELSE LET closest == find_closest_target(tgts, dets[k].pixel, threshold)
         IN  IF closest # 0
             THEN associate_without_fix_test(dets, k + 1,
                     [tgts EXCEPT ![closest] = Target_update(@, dets[k].pixel, frames)],
                     updated \cup {tgts[closest].id},
                     Count(touched, tgts[closest].id), nid, threshold, frames)
             ELSE associate_without_fix_test(dets, k + 1,
                     Append(tgts, NewTarget(nid + 1, dets[k].pixel)),
                     updated, Count(touched, nid + 1), nid + 1, threshold, frames)

\* The first loop of TargetManager.update over new_detections[k..]: the
\* targets, the ids in updated_targets_in_frame and the number of targets
\* created.  touched counts, for each target, the detections of the frame
\* that updated or created it.
RECURSIVE associate(_, _, _, _, _, _, _, _)
associate(dets, k, tgts, updated, touched, nid, threshold, frames) ==
    IF k > Len(dets)
    THEN [targets |-> tgts, updated |-> updated, touches |-> touched, next_id |-> nid]
    ELSE IF ~dets[k].fix
         THEN associate(dets, k + 1, tgts, updated, touched, nid, threshold, frames)
    ELSE LET closest == find_closest_target(tgts, dets[k].pixel, threshold)
         IN  IF closest # 0
             THEN associate(dets, k + 1,
                     [tgts EXCEPT ![closest] = Target_update(@, dets[k].pixel, frames)],
                     updated \cup {tgts[closest].id},
                     Count(touched, tgts[closest].id), nid, threshold, frames)
             ELSE associate(dets, k + 1,
                     Append(tgts, NewTarget(nid + 1, dets[k].pixel)),
                     updated, Count(touched, nid + 1), nid + 1, threshold, frames)

\* A report test that forgets is_reported.
should_report_again(t, frames) == t.confirmation_counter >= frames

\* The test of line 77 of TargetManager.update.
should_report(t, frames) ==
    ~t.is_reported /\ t.confirmation_counter >= frames

\* The ageing of the second loop for one target.
aged(t, updated) ==
    IF t.id \notin updated THEN [t EXCEPT !.frames_unseen = @ + 1] ELSE t

\* The body of the second loop of TargetManager.update for one target.
age_and_mark(t, updated, frames) ==
    IF should_report(aged(t, updated), frames)
    THEN [aged(t, updated) EXCEPT !.is_reported = TRUE]
    ELSE aged(t, updated)

\* The records the second loop of TargetManager.update puts in the output
\* queue, for the targets tgts[k..].
RECURSIVE new_reports(_, _, _, _)
new_reports(tgts, k, updated, frames) ==
    IF k > Len(tgts) THEN <<>>
    ELSE IF should_report(aged(tgts[k], updated), frames)
         THEN <<[target_id |-> tgts[k].id]>>
                  \o new_reports(tgts, k + 1, updated, frames)
         ELSE new_reports(tgts, k + 1, updated, frames)

\* A list comprehension that keeps a target for two cycles longer.
RECURSIVE keep_seen_late(_, _, _)
keep_seen_late(tgts, k, threshold) ==
    IF k > Len(tgts) THEN <<>>
    ELSE IF tgts[k].frames_unseen <= threshold + 1
         THEN <<tgts[k]>> \o keep_seen_late(tgts, k + 1, threshold)
         ELSE keep_seen_late(tgts, k + 1, threshold)

\* The list comprehension of line 92 over tgts[k..].
RECURSIVE keep_seen(_, _, _)
keep_seen(tgts, k, threshold) ==
    IF k > Len(tgts) THEN <<>>
    ELSE IF tgts[k].frames_unseen < threshold
         THEN <<tgts[k]>> \o keep_seen(tgts, k + 1, threshold)
         ELSE keep_seen(tgts, k + 1, threshold)

\* ------------------------------------------------------------------- Init

InitBuffer ==
    /\ buffer = <<>>
    /\ last_msg_time = 0
    /\ buffer_size \in 1..MaxBufferSize
    /\ flush_timeout \in 0..MaxFlushTimeout
    /\ emitted = <<>>
    /\ arrived = 0
    /\ since_clear = 0
    /\ last_touch = 0

InitLink ==
    /\ check_interval \in 0..MaxCheckInterval
    /\ max_disconnect_time \in 1..MaxDisconnectTime
    /\ last_check_time = 0
    /\ disconnect_duration = 0
    /\ check_pc = "idle"
    /\ current_time = 0
    /\ accrued = 0
    /\ lost_reported = FALSE

InitOps ==
    /\ mav_ready \in BOOLEAN
    /\ active_operations = << >>
    /\ running = {}
    /\ created = 0
    /\ request = [operation_name |-> Absent, id |-> Absent]
    /\ response = [handler |-> "none", success |-> FALSE, id |-> "", error |-> ""]
    /\ stop_calls = {}

\* The main thread is about to enter the relay loop.
InitMain ==
    /\ main_pc = "loop"
    /\ exit_reason = "none"
    /\ to_stop = {}
    /\ disconnect_called = FALSE

\* No request event has been delivered yet.
InitRequests ==
    /\ req_pc = "idle"
    /\ req_kind = "none"
    /\ pending_response = FALSE
    /\ received = 0
    /\ response_events = 0

\* TargetManager.__init__ under one configuration.
InitTracker ==
    /\ targets = <<>>
    /\ output_queue = <<>>
    /\ confirmation_frames \in 1..MaxConfirmationFrames
    /\ pixel_distance_threshold \in PixelThresholds
    /\ unseen_frames_threshold \in 1..MaxUnseenFrames
    /\ next_id = 0
    /\ streak = 0
    /\ streak_pixel = <<0, 0>>
    /\ streak_broken = FALSE
    /\ confirmed = {}
    /\ touches = << >>
    /\ absent = << >>
    /\ discarded = {}
    /\ frame_width \in FrameWidths

\* The operation classes of operations/.
OperationClasses == {"OperationColorTracker", "OperationSerialListener"}

\* status_op before the relay loop has taken a record.
NoRecord == [source |-> "", seq |-> 0]

\* An operation instance once its constructor has returned.
InitInstance ==
    /\ op_class \in OperationClasses
    /\ device_available \in BOOLEAN
    /\ is_running = FALSE
    /\ op_thread = "none"
    /\ resource_open = FALSE
    /\ start_returned = "none"
    /\ exit_cause = "none"
    /\ stop_pc = "idle"
    /\ stopped_after_failure = FALSE

\* operation_output_queue = queue.Queue() and the relay thread before its
\* first pass.
InitRelay ==
    /\ operation_output_queue = <<>>
    /\ put_count = [id \in Ids |-> 0]
    /\ relay_pc = "idle"
    /\ status_op = NoRecord
    /\ status_emitted = <<>>

\* One operation instance, for the specifications of the other components.
OneInstanceConfig ==
    /\ op_class = "OperationSerialListener"
    /\ device_available

\* One configuration of the tracker, for the specifications of the other
\* components.
OneTrackerConfig ==
    /\ confirmation_frames = MaxConfirmationFrames
    /\ pixel_distance_threshold = 2
    /\ unseen_frames_threshold = MaxUnseenFrames
    /\ frame_width = 2

\* The state once main has built its objects and connect() has returned true.
Init ==
    /\ now = 0
    /\ connected = TRUE
    /\ connect_event = FALSE
    /\ real_disconnected = 0
    /\ InitBuffer
    /\ InitLink
    /\ InitOps
    /\ InitMain
    /\ InitRequests
    /\ InitTracker
    /\ InitInstance
    /\ InitRelay
    /\ call = [op |-> "init", ret |-> TRUE]

\* ---------------------------------------------------------------- actions

\* time.time() moves on.
Tick ==
    /\ now < MaxTime
    /\ now' = now + 1
    /\ real_disconnected' = IF connected THEN real_disconnected ELSE real_disconnected + 1
    /\ UNCHANGED <<connected, connect_event, notenv>>

\* The transport loses its connection (its own thread).
TransportDisconnect ==
    /\ connected
    /\ connected' = FALSE
    /\ UNCHANGED <<now, connect_event, real_disconnected, notenv>>

\* The transport's automatic reconnection succeeds; the library then fires
\* the 'connect' event at the registered callback, on its own thread.
TransportConnect ==
    /\ ~connected
    /\ connected' = TRUE
    /\ connect_event' = TRUE
    /\ UNCHANGED <<now, real_disconnected, notenv>>

\* buffer.add_message(msg) with the next telemetry record.
AddMessage ==
    /\ arrived < MaxRecords
    /\ arrived' = arrived + 1
    /\ buffer' = add_message_buffer(buffer, arrived + 1, buffer_size)
    /\ last_msg_time' = now
    /\ last_touch' = now
    /\ since_clear' = since_clear + 1
    /\ call' = [op |-> "add_message", ret |-> add_message_return(buffer', buffer_size)]
    /\ UNCHANGED <<now, connected, buffer_size, flush_timeout, emitted>>
    /\ UNCHANGED notbuf

\* buffer.check_timeout().
CheckTimeout ==
    /\ call' = [op |-> "check_timeout",
                ret |-> check_timeout(buffer, now, last_msg_time, flush_timeout)]
    /\ UNCHANGED <<now, connected, bufvars>>
    /\ UNCHANGED notbuf

\* socket_client.flush_buffer(buffer).
FlushBuffer ==
    \E emit_ok \in BOOLEAN :
        LET r == flush_buffer(buffer, connected, emit_ok)
        IN  /\ emitted' = emitted \o r.sent
            /\ IF r.cleared
               THEN /\ buffer' = <<>>
                    /\ last_msg_time' = now
                    /\ last_touch' = now
                    /\ since_clear' = 0
               ELSE UNCHANGED <<buffer, last_msg_time, last_touch, since_clear>>
            /\ call' = [op |-> "flush_buffer", ret |-> r.ret]
            /\ UNCHANGED <<now, connected, buffer_size, flush_timeout, arrived>>
            /\ UNCHANGED notbuf

NextBuffer ==
    \/ Tick
    \/ TransportDisconnect
    \/ TransportConnect
    \/ AddMessage
    \/ CheckTimeout
    \/ FlushBuffer

\* The buffer under every configuration, the link monitor under one.
InitSpecBuffer ==
    /\ Init
    /\ mav_ready
    /\ check_interval = MaxCheckInterval
    /\ max_disconnect_time = MaxDisconnectTime
    /\ OneTrackerConfig
    /\ OneInstanceConfig

SpecBuffer == InitSpecBuffer /\ [][NextBuffer]_vars

\* ----------------------------------------------------- link monitor actions

\* _on_connect, the callback of the 'connect' event (transport thread).
OnConnect ==
    /\ connect_event
    /\ connect_event' = FALSE
    /\ disconnect_duration' = 0
    /\ last_check_time' = now
    /\ UNCHANGED <<now, connected, real_disconnected, call, notlink>>
    /\ UNCHANGED <<check_interval, max_disconnect_time, check_pc, current_time,
                   accrued, lost_reported>>

\* check_persistent_disconnect, lines 86-88: the call is throttled and
\* returns True without touching anything.
CheckThrottled ==
    /\ check_pc = "idle"
    /\ check_sample(now, last_check_time, check_interval, connected,
                    disconnect_duration).branch = "skip"
    /\ current_time' = now
    /\ call' = [op |-> "check_persistent_disconnect", ret |-> TRUE]
    /\ UNCHANGED <<envvars, notlink>>
    /\ UNCHANGED <<check_interval, max_disconnect_time, last_check_time,
                   disconnect_duration, check_pc, accrued, lost_reported>>

\* check_persistent_disconnect, lines 86-88 and 94-98: the check samples the
\* transport connected.
CheckConnected ==
    /\ check_pc = "idle"
    /\ LET r == check_sample(now, last_check_time, check_interval, connected,
                             disconnect_duration)
       IN  /\ r.branch = "reset"
           /\ disconnect_duration' = r.dur
    /\ current_time' = now
    /\ last_check_time' = now
    /\ real_disconnected' = 0
    /\ call' = [op |-> "check_persistent_disconnect", ret |-> TRUE]
    /\ UNCHANGED <<now, connected, connect_event, notlink>>
    /\ UNCHANGED <<check_interval, max_disconnect_time, check_pc, accrued,
                   lost_reported>>

\* check_persistent_disconnect, lines 86-89: the check samples the transport
\* disconnected and evaluates the new duration; the store is the next step.
CheckDisconnected ==
    /\ check_pc = "idle"
    /\ disconnect_duration <= MaxDuration
    /\ LET r == check_sample(now, last_check_time, check_interval, connected,
                             disconnect_duration)
       IN  /\ r.branch = "accrue"
           /\ accrued' = r.dur
    /\ current_time' = now
    /\ check_pc' = "store"
    /\ UNCHANGED <<envvars, call, notlink>>
    /\ UNCHANGED <<check_interval, max_disconnect_time, last_check_time,
                   disconnect_duration, lost_reported>>

\* Line 89, the store into _disconnect_duration, and the log call of line 90.
CheckStore ==
    /\ check_pc = "store"
    /\ disconnect_duration' = accrued
    /\ check_pc' = "compare"
    /\ UNCHANGED <<envvars, call, notlink>>
    /\ UNCHANGED <<check_interval, max_disconnect_time, last_check_time,
                   current_time, accrued, lost_reported>>

\* Lines 91-93: the threshold is reached and the check returns False.
CheckReturnLost ==
    /\ check_pc = "compare"
    /\ threshold_reached(disconnect_duration, max_disconnect_time)
    /\ check_pc' = "idle"
    /\ lost_reported' = TRUE
    /\ call' = [op |-> "check_persistent_disconnect", ret |-> FALSE]
    /\ UNCHANGED <<envvars, notlink>>
    /\ UNCHANGED <<check_interval, max_disconnect_time, last_check_time,
                   disconnect_duration, current_time, accrued>>

\* Lines 91, 97-98: below the threshold; the check time is recorded and the
\* check returns True.
CheckReturnHealthy ==
    /\ check_pc = "compare"
    /\ ~threshold_reached(disconnect_duration, max_disconnect_time)
    /\ check_pc' = "idle"
    /\ last_check_time' = current_time
    /\ call' = [op |-> "check_persistent_disconnect", ret |-> TRUE]
    /\ UNCHANGED <<envvars, notlink>>
    /\ UNCHANGED <<check_interval, max_disconnect_time, disconnect_duration,
                   current_time, accrued, lost_reported>>

\* A step in which a call of check_persistent_disconnect returns.
CheckReturns ==
    CheckThrottled \/ CheckConnected \/ CheckReturnLost \/ CheckReturnHealthy

NextLink ==
    \/ Tick
    \/ TransportDisconnect
    \/ TransportConnect
    \/ OnConnect
    \/ CheckThrottled
    \/ CheckConnected
    \/ CheckDisconnected
    \/ CheckStore
    \/ CheckReturnLost
    \/ CheckReturnHealthy

\* The link monitor under every configuration, the buffer under one.
InitSpecLink ==
    /\ Init
    /\ mav_ready
    /\ buffer_size = MaxBufferSize
    /\ flush_timeout = MaxFlushTimeout
    /\ OneTrackerConfig
    /\ OneInstanceConfig

SpecLink == InitSpecLink /\ [][NextLink]_vars

\* ------------------------------------------------------ supervisor actions

\* mav_copter.is_ready() changes its answer.
MavReadyChange ==
    /\ mav_ready' = ~mav_ready
    /\ UNCHANGED <<active_operations, running, created, request, response,
                   stop_calls, notops>>

\* The transport thread delivers request events to the handlers from
\* connect() until main calls disconnect() or the process ends.
HandlersRegistered == main_pc \in {"loop", "stopping"}

\* handle_start_operation(data) for one request and one behaviour of the
\* operation class.
StartOperation(op_name, id, ctor_raises, start_outcome) ==
    LET op_id == start_op_id(id)
        r == handle_start_operation(op_name, op_id, mav_ready, ctor_raises, start_outcome)
        instance == created + 1
    IN  /\ request' = [operation_name |-> op_name, id |-> id]
        /\ HandlersRegistered
        /\ created < MaxInstances
        /\ response' = [handler |-> r.handler, success |-> r.success,
                        id |-> r.id, error |-> r.error]
        /\ IF r.writes
           THEN active_operations' =
                    [x \in DOMAIN active_operations \cup {op_id} |->
                        IF x = op_id THEN instance ELSE active_operations[x]]
           ELSE UNCHANGED active_operations
        /\ IF r.success
           THEN /\ running' = running \cup {instance}
                /\ created' = created + 1
           ELSE UNCHANGED <<running, created>>
        /\ UNCHANGED <<mav_ready, stop_calls, notops>>

\* A request_start_operation event reaches handle_start_operation.
HandleStartOperation ==
    \E op_name \in OpNames \cup {Absent}, id \in Ids \cup {Absent},
       ctor_raises \in BOOLEAN, start_outcome \in {"true", "false", "raises"} :
        StartOperation(op_name, id, ctor_raises, start_outcome)

\* handle_stop_operation(data) for one request and one behaviour of the
\* instance's stop(): it stops the thread, it returns with the thread still
\* alive after the join timeout, or it raises.
StopOperation(id, stop_outcome) ==
    LET op_id == stop_op_id(id)
        r == handle_stop_operation(op_id, active_operations, stop_outcome)
    IN  /\ request' = [operation_name |-> Absent, id |-> id]
        /\ HandlersRegistered
        /\ response' = [handler |-> r.handler, success |-> r.success,
                        id |-> r.id, error |-> r.error]
        /\ IF r.writes
           THEN active_operations' = Without(active_operations, op_id)
           ELSE UNCHANGED active_operations
        /\ IF op_id \in DOMAIN active_operations /\ stop_outcome = "stopped"
           THEN running' = running \ {active_operations[op_id]}
           ELSE UNCHANGED running
        /\ IF op_id \in DOMAIN active_operations
           THEN stop_calls' = stop_calls \cup {active_operations[op_id]}
           ELSE UNCHANGED stop_calls
        /\ UNCHANGED <<mav_ready, created, notops>>

\* A request_stop_operation event reaches handle_stop_operation.
HandleStopOperation ==
    \E id \in Ids \cup {"None", Absent},
       stop_outcome \in {"stopped", "timeout", "raises"} :
        StopOperation(id, stop_outcome)

NextOps ==
    \/ MavReadyChange
    \/ HandleStartOperation
    \/ HandleStopOperation

\* The supervisor under every request, the buffer and the link monitor under
\* one configuration.
InitSpecOps ==
    /\ Init
    /\ buffer_size = MaxBufferSize
    /\ flush_timeout = MaxFlushTimeout
    /\ check_interval = MaxCheckInterval
    /\ max_disconnect_time = MaxDisconnectTime
    /\ OneTrackerConfig
    /\ OneInstanceConfig

SpecOps == InitSpecOps /\ [][NextOps]_vars

\* ------------------------------------------------------ main thread actions

\* Why one pass of the relay loop leaves the loop, "none" when it does not.
\* raised is what the body of the try raised, if anything.
loop_exit(failed_permanently, raised, link_ok) ==
    IF failed_permanently THEN "permanent_failure"
    ELSE IF raised = "KeyboardInterrupt" THEN "interrupt"
    ELSE IF raised = "Exception" THEN "none"
    ELSE IF ~link_ok THEN "link_lost"
    ELSE "none"

\* One pass of the while loop of main.  When it breaks, the shutdown
\* procedure takes list(active_operations.items()).
RelayIteration ==
    \E failed_permanently \in BOOLEAN, link_ok \in BOOLEAN,
       raised \in {"nothing", "Exception", "KeyboardInterrupt"} :
        LET reason == loop_exit(failed_permanently, raised, link_ok)
        IN  /\ main_pc = "loop"
            /\ exit_reason' = reason
            /\ IF reason = "none"
               THEN UNCHANGED <<main_pc, to_stop>>
               ELSE /\ main_pc' = "stopping"
                    /\ to_stop' = Values(active_operations)
            /\ UNCHANGED <<disconnect_called, envvars, bufvars, linkvars, opsvars,
                           reqvars, trackvars, instvars, relayvars, call>>

\* One pass of the for loop of the shutdown procedure: op_instance.stop()
\* stops the thread, returns after the join timeout, or raises; what it
\* raises leaves main.
ShutdownStop ==
    \E instance \in to_stop, stop_outcome \in {"stopped", "timeout", "raises"} :
        /\ main_pc = "stopping"
        /\ stop_calls' = stop_calls \cup {instance}
        /\ running' = IF stop_outcome = "stopped" THEN running \ {instance} ELSE running
        /\ to_stop' = to_stop \ {instance}
        /\ main_pc' = IF stop_outcome = "raises" THEN "crashed" ELSE "stopping"
        /\ UNCHANGED <<exit_reason, disconnect_called, mav_ready, active_operations,
                       created, request, response, envvars, bufvars, linkvars,
                       reqvars, trackvars, instvars, relayvars, call>>

\* The end of main: socket_client.disconnect(), mav_copter.close(),
\* sys.exit(0).
ShutdownDisconnect ==
    /\ main_pc = "stopping"
    /\ to_stop = {}
    /\ disconnect_called' = TRUE
    /\ connected' = FALSE
    /\ main_pc' = "exited"
    /\ UNCHANGED <<exit_reason, to_stop, now, connect_event, real_disconnected,
                   bufvars, linkvars, opsvars, reqvars, trackvars, instvars,
                   relayvars, call>>

NextMain ==
    \/ NextOps
    \/ RelayIteration
    \/ ShutdownStop
    \/ ShutdownDisconnect

\* The relay loop and the shutdown procedure of main, with the supervisor's
\* handlers running on the transport thread.
InitSpecMain == InitSpecOps

SpecMain == InitSpecMain /\ [][NextMain]_vars

\* ------------------------------------------------ request callback actions

RequestKinds ==
    {"command", "mission_download", "mission_upload",
     "start_operation", "stop_operation"}

\* What the handler main registered for a request event can do: the Python
\* value it returns, or "raises".
HandlerResults(kind) ==
    CASE kind = "command" -> {"1", "2", "False", "raises"}
      [] kind = "mission_download" -> {"list", "None", "raises"}
      [] kind = "mission_upload" -> {"True", "False", "raises"}
      [] OTHER -> {"dict_success", "dict_failure", "raises"}

\* Dictionary handed to emit_response.
Respond(success) == [emit |-> TRUE, success |-> success]

\* The callback returns without calling emit_response.
NoResponse == [emit |-> FALSE, success |-> FALSE]

\* _on_request_<kind>(data) with a configured handler: the call of
\* emit_response it makes, if any.  data_is_list: isinstance(data, list).
on_request(kind, data_is_list, result) ==
    CASE kind = "command" ->
            IF result = "raises" THEN Respond(FALSE)
            ELSE Respond(result \in {"1", "2"})
      [] kind = "mission_download" ->
            IF result = "raises" THEN Respond(FALSE)
            ELSE Respond(result # "None")
      [] kind = "mission_upload" ->
            IF ~data_is_list THEN Respond(FALSE)
            ELSE IF result = "raises" THEN Respond(FALSE)
            ELSE Respond(result = "True")
      [] OTHER ->
            IF result = "raises" THEN Respond(FALSE)
            ELSE IF result \in {"dict_success", "dict_failure"}
                 THEN Respond(result = "dict_success")
                 ELSE NoResponse

\* emit_response(event_name, response_dict): the number of events the
\* transport is given.
emit_response(conn, emit_raises) ==
    IF ~conn THEN 0
    ELSE IF emit_raises THEN 0
    ELSE 1

\* The transport delivers a request event and the callback runs up to its
\* call of emit_response.
OnRequest ==
    \E kind \in RequestKinds, data_is_list \in BOOLEAN :
      \E result \in HandlerResults(kind) :
        LET r == on_request(kind, data_is_list, result)
        IN  /\ connected
            /\ req_pc \in {"idle", "returned"}
            /\ received < MaxRequests
            /\ received' = received + 1
            /\ req_kind' = kind
            /\ response_events' = 0
            /\ pending_response' = r.success
            /\ req_pc' = IF r.emit THEN "emit_response" ELSE "returned"
            /\ UNCHANGED <<envvars, notreq>>

\* The callback's emit_response runs and the callback returns.
EmitResponse ==
    \E emit_raises \in BOOLEAN :
        /\ req_pc = "emit_response"
        /\ response_events' = response_events + emit_response(connected, emit_raises)
        /\ req_pc' = "returned"
        /\ UNCHANGED <<req_kind, pending_response, received, envvars, notreq>>

NextRequests ==
    \/ OnRequest
    \/ EmitResponse
    \/ TransportDisconnect
    \/ TransportConnect

\* The request callbacks of SocketIOConnection with the transport dropping
\* and returning at any time.
InitSpecRequests == InitSpecOps /\ mav_ready

SpecRequests == InitSpecRequests /\ [][NextRequests]_vars

\* ------------------------------------------------- target tracking actions

\* The new_detections lists of one frame.
DetectionLists(width) == UNION {[1..n -> Detections(width)] : n \in FrameSizes}

\* TargetManager.update(new_detections, mav_telemetry, frame_shape) for one
\* frame.
Update(dets) ==
    \E a \in {associate(dets, 1, targets, {}, << >>, next_id,
                      pixel_distance_threshold, confirmation_frames)} :
        LET marked == [i \in 1..Len(a.targets) |->
                          age_and_mark(a.targets[i], a.updated, confirmation_frames)]
            reached == {a.targets[i].id : i \in
                          {k \in 1..Len(a.targets) :
                              a.targets[k].confirmation_counter >= confirmation_frames}}
            in_streak == /\ ~streak_broken
                         /\ streak < confirmation_frames
                         /\ Len(dets) = 1
                         /\ dets[1].fix
                         /\ (streak = 0 \/ dets[1].pixel = streak_pixel)
        IN  /\ a.next_id <= MaxTargets
            /\ next_id' = a.next_id
            /\ output_queue' = output_queue \o
                   new_reports(a.targets, 1, a.updated, confirmation_frames)
            /\ targets' = keep_seen(marked, 1, unseen_frames_threshold)
            /\ touches' = [id \in TargetIds(targets') \cap DOMAIN a.touches |->
                              a.touches[id]]
            /\ absent' = [id \in 1..a.next_id |->
                             IF id \in DOMAIN a.touches THEN 0
                             ELSE Min(absent[id] + 1, MaxUnseenFrames + 1)]
            /\ discarded' = {targets[i].id : i \in {n \in 1..Len(targets) :
                                \E k \in 1..Len(dets) :
                                    /\ ~dets[k].fix
                                    /\ Within(targets[n].last_pixel_coords, dets[k].pixel,
                                              pixel_distance_threshold)}}
                             \cap TargetIds(targets')
            /\ confirmed' = confirmed \cup reached
            /\ IF in_streak
               THEN /\ streak' = streak + 1
                    /\ streak_pixel' = dets[1].pixel
                    /\ UNCHANGED streak_broken
               ELSE /\ streak_broken' = TRUE
                    /\ UNCHANGED <<streak, streak_pixel>>
            /\ UNCHANGED <<confirmation_frames, pixel_distance_threshold,
                           unseen_frames_threshold, frame_width, nottrack>>

\* The thread of the colour tracker processes one frame.
UpdateCycle == \E dets \in DetectionLists(frame_width) : Update(dets)

NextTracker == UpdateCycle

\* The target manager under every configuration, the other components under
\* one.
InitSpecTracker ==
    /\ Init
    /\ mav_ready
    /\ buffer_size = MaxBufferSize
    /\ flush_timeout = MaxFlushTimeout
    /\ check_interval = MaxCheckInterval
    /\ max_disconnect_time = MaxDisconnectTime
    /\ frame_width = 2
    /\ OneInstanceConfig

SpecTracker == InitSpecTracker /\ [][NextTracker]_vars

\* The target manager on frames three pixels wide, where two targets can be
\* equally far from a detection, under both pixel distance thresholds, with
\* targets confirmed at once and dropped after one cycle unseen.
InitSpecTrackerWide ==
    /\ Init
    /\ mav_ready
    /\ buffer_size = MaxBufferSize
    /\ flush_timeout = MaxFlushTimeout
    /\ check_interval = MaxCheckInterval
    /\ max_disconnect_time = MaxDisconnectTime
    /\ OneInstanceConfig
    /\ frame_width = 3
    /\ confirmation_frames = 1
    /\ unseen_frames_threshold = 2

SpecTrackerWide == InitSpecTrackerWide /\ [][NextTracker]_vars

\* --------------------------------------- relay loop with the link check

\* The relay loop is at its call of check_persistent_disconnect: it runs,
\* and no call has returned False.
AtLinkCheck ==
    /\ main_pc = "loop"
    /\ ~(call.op = "check_persistent_disconnect" /\ call.ret = FALSE)

\* The steps of check_persistent_disconnect as main's loop calls it.
RelayChecks ==
    /\ AtLinkCheck
    /\ \/ CheckThrottled
       \/ CheckConnected
       \/ CheckDisconnected
       \/ CheckStore
       \/ CheckReturnLost
       \/ CheckReturnHealthy

\* `if not socket_client.check_persistent_disconnect(): break`, and the
\* shutdown procedure takes list(active_operations.items()).
BreakOnLinkLost ==
    /\ main_pc = "loop"
    /\ call = [op |-> "check_persistent_disconnect", ret |-> FALSE]
    /\ main_pc' = "stopping"
    /\ exit_reason' = loop_exit(FALSE, "nothing", FALSE)
    /\ to_stop' = Values(active_operations)
    /\ UNCHANGED <<disconnect_called, envvars, bufvars, linkvars, opsvars,
                   reqvars, trackvars, instvars, relayvars, call>>

\* The steps of the main thread.
RelaySteps == RelayChecks \/ BreakOnLinkLost \/ ShutdownDisconnect

NextLinkLoop ==
    \/ Tick
    \/ TransportDisconnect
    \/ TransportConnect
    \/ OnConnect
    \/ RelayChecks
    \/ BreakOnLinkLost
    \/ ShutdownDisconnect

\* The relay loop with its link check under every configuration of the
\* link monitor: the main thread keeps being scheduled and the clock keeps
\* advancing up to MaxTime; nothing is assumed of the transport.
SpecLinkLoop ==
    /\ InitSpecLink
    /\ [][NextLinkLoop]_vars
    /\ WF_vars(RelaySteps)
    /\ WF_vars(Tick)

\* ------------------------------------ relay loop with the telemetry buffer

\* Lines 228-234 of main: a record of received_messages is added to the
\* buffer, and the buffer is flushed when add_message returns True.
RelayTelemetry ==
    \E emit_ok \in BOOLEAN :
        LET added == add_message_buffer(buffer, arrived + 1, buffer_size)
            full == add_message_return(added, buffer_size)
            r == flush_buffer(added, connected, emit_ok)
        IN  /\ arrived < MaxRecords
            /\ arrived' = arrived + 1
            /\ last_msg_time' = now
            /\ last_touch' = now
            /\ IF full
               THEN /\ emitted' = emitted \o r.sent
                    /\ buffer' = IF r.cleared THEN <<>> ELSE added
                    /\ since_clear' = IF r.cleared THEN 0 ELSE since_clear + 1
                    /\ call' = [op |-> "flush_buffer", ret |-> r.ret]
               ELSE /\ buffer' = added
                    /\ since_clear' = since_clear + 1
                    /\ call' = [op |-> "add_message", ret |-> FALSE]
                    /\ UNCHANGED emitted
            /\ UNCHANGED <<now, connected, buffer_size, flush_timeout>>
            /\ UNCHANGED notbuf

\* Lines 236-237 of main when check_timeout() returns True: the buffer is
\* flushed.
RelayTimeout ==
    \E emit_ok \in BOOLEAN :
        LET r == flush_buffer(buffer, connected, emit_ok)
        IN  /\ check_timeout(buffer, now, last_msg_time, flush_timeout)
            /\ emitted' = emitted \o r.sent
            /\ IF r.cleared
               THEN /\ buffer' = <<>>
                    /\ last_msg_time' = now
                    /\ last_touch' = now
                    /\ since_clear' = 0
               ELSE UNCHANGED <<buffer, last_msg_time, last_touch, since_clear>>
            /\ call' = [op |-> "flush_buffer", ret |-> r.ret]
            /\ UNCHANGED <<now, connected, buffer_size, flush_timeout, arrived>>
            /\ UNCHANGED notbuf

\* A pass of lines 236-237 in which the flush empties the buffer.
RelayTimeoutFlushed == RelayTimeout /\ buffer' = <<>>

NextTelemetryLoop ==
    \/ Tick
    \/ TransportDisconnect
    \/ TransportConnect
    \/ RelayTelemetry
    \/ RelayTimeout

\* The telemetry part of the relay loop under every configuration of the
\* buffer: the main thread keeps being scheduled, client.emit does not raise
\* for ever and the clock keeps advancing up to MaxTime; nothing is assumed
\* of the transport's connection or of the arrival of telemetry.
SpecTelemetryLoop ==
    /\ InitSpecBuffer
    /\ [][NextTelemetryLoop]_vars
    /\ WF_vars(RelayTimeoutFlushed)
    /\ WF_vars(Tick)

\* ------------------------------------------- operation instance actions

\* start() up to its return value for the state it finds: "false" for a
\* refusal, "true" once the thread is started.  OperationSerialListener
\* opens the port in start(), OperationColorTracker opens nothing there.
start(cls, running_now, device_ok) ==
    IF running_now THEN "false"
    ELSE IF cls = "OperationSerialListener" /\ ~device_ok THEN "false"
    ELSE "true"

\* start() of the instance, called when no stop() is under way and no thread
\* of an earlier start lingers.
OperationStart ==
    LET ret == start(op_class, is_running, device_available)
    IN  /\ stop_pc = "idle"
        /\ is_running \/ op_thread \in {"none", "dead"}
        /\ start_returned' = ret
        /\ IF ret = "true"
           THEN /\ is_running' = TRUE
                /\ op_thread' = IF op_class = "OperationColorTracker" THEN "open" ELSE "loop"
                /\ resource_open' = (op_class = "OperationSerialListener")
                /\ exit_cause' = "none"
                /\ stopped_after_failure' = FALSE
           ELSE UNCHANGED <<is_running, op_thread, resource_open, exit_cause,
                            stopped_after_failure>>
        /\ UNCHANGED <<op_class, device_available, stop_pc, notinst>>

\* The first lines of OperationColorTracker._run_loop: the capture is
\* opened, and the thread returns when it is not.
OpenVideo ==
    /\ op_thread = "open"
    /\ IF device_available
       THEN /\ resource_open' = TRUE
            /\ op_thread' = "loop"
            /\ UNCHANGED <<is_running, exit_cause>>
       ELSE /\ is_running' = FALSE
            /\ op_thread' = "dead"
            /\ exit_cause' = "open_failure"
            /\ UNCHANGED resource_open
    /\ UNCHANGED <<op_class, device_available, start_returned, stop_pc,
                   stopped_after_failure, notinst>>

\* A pass of the loop fails: readline() raises SerialException and the
\* serial listener breaks and clears is_running; the processing of a frame
\* raises and the exception ends the color tracker's thread.
ReadFailure ==
    /\ op_thread = "loop"
    /\ is_running
    /\ op_thread' = "dead"
    /\ exit_cause' = "read_failure"
    /\ is_running' = IF op_class = "OperationSerialListener" THEN FALSE ELSE is_running
    /\ UNCHANGED <<op_class, device_available, resource_open, start_returned,
                   stop_pc, stopped_after_failure, notinst>>

\* A pass of the loop that puts a record in the output queue, for an
\* instance started under operation id "a".
LoopIteration ==
    /\ op_thread = "loop"
    /\ is_running
    /\ put_count["a"] < MaxPuts
    /\ put_count' = [put_count EXCEPT !["a"] = @ + 1]
    /\ operation_output_queue' =
           Append(operation_output_queue, [source |-> "a", seq |-> put_count["a"] + 1])
    /\ UNCHANGED <<instvars, relay_pc, status_op, status_emitted, envvars, notrelay>>

\* The loop test finds is_running false: the color tracker releases the
\* capture, the serial listener leaves the port to stop().
CleanExit ==
    /\ op_thread = "loop"
    /\ ~is_running
    /\ op_thread' = "dead"
    /\ exit_cause' = "clean"
    /\ resource_open' = IF op_class = "OperationColorTracker" THEN FALSE ELSE resource_open
    /\ UNCHANGED <<op_class, device_available, is_running, start_returned,
                   stop_pc, stopped_after_failure, notinst>>

\* stop() up to the join: it returns at once when is_running is false.
StopBegin ==
    /\ stop_pc = "idle"
    /\ start_returned # "none"
    /\ IF ~is_running
       THEN /\ stopped_after_failure' = (stopped_after_failure \/ exit_cause = "read_failure")
            /\ UNCHANGED <<is_running, stop_pc>>
       ELSE /\ is_running' = FALSE
            /\ stop_pc' = "joining"
            /\ UNCHANGED stopped_after_failure
    /\ UNCHANGED <<op_class, device_available, op_thread, resource_open,
                   start_returned, exit_cause, notinst>>

\* stop() from the end of the join, which the thread's end or the timeout
\* brings: the serial listener closes the port if it is open.
StopEnd ==
    \E timed_out \in BOOLEAN :
        /\ stop_pc = "joining"
        /\ op_thread = "dead" \/ timed_out
        /\ stop_pc' = "idle"
        /\ resource_open' = IF op_class = "OperationSerialListener" THEN FALSE ELSE resource_open
        /\ stopped_after_failure' = (stopped_after_failure \/ exit_cause = "read_failure")
        /\ UNCHANGED <<op_class, device_available, is_running, op_thread,
                       start_returned, exit_cause, notinst>>

\* The input device comes or goes.
DeviceChange ==
    /\ device_available' = ~device_available
    /\ UNCHANGED <<op_class, is_running, op_thread, resource_open, start_returned,
                   exit_cause, stop_pc, stopped_after_failure, notinst>>

NextInstance ==
    \/ OperationStart
    \/ OpenVideo
    \/ LoopIteration
    \/ ReadFailure
    \/ CleanExit
    \/ StopBegin
    \/ StopEnd
    \/ DeviceChange

\* One instance of either operation class with its device coming and going,
\* the other components under one configuration.
InitSpecInstance ==
    /\ Init
    /\ mav_ready
    /\ buffer_size = MaxBufferSize
    /\ flush_timeout = MaxFlushTimeout
    /\ check_interval = MaxCheckInterval
    /\ max_disconnect_time = MaxDisconnectTime
    /\ OneTrackerConfig

SpecInstance == InitSpecInstance /\ [][NextInstance]_vars

\* ------------------------------------------------------ emission actions

\* A get that takes the newest record of the queue.
get_newest(q) == [item |-> q[Len(q)], rest |-> SubSeq(q, 1, Len(q) - 1)]

\* operation_output_queue.get_nowait() on a queue that is not empty.
get_nowait(q) == [item |-> Head(q), rest |-> Tail(q)]

\* The thread of operation id puts its next record: output_queue.put(...).
OperationPut(id) ==
    /\ put_count[id] < MaxPuts
    /\ put_count' = [put_count EXCEPT ![id] = @ + 1]
    /\ operation_output_queue' =
           Append(operation_output_queue, [source |-> id, seq |-> put_count[id] + 1])
    /\ UNCHANGED <<relay_pc, status_op, status_emitted, envvars, notrelay>>

\* Some operation thread puts a record.
OperationPuts == \E id \in Ids : OperationPut(id)

\* Lines 239-243 of main up to client.emit: the relay thread takes a record
\* and emit_status returns at once when the transport is not connected.
RelayGetStatus ==
    /\ main_pc = "loop"
    /\ relay_pc = "idle"
    /\ operation_output_queue # <<>>
    /\ \E g \in {get_nowait(operation_output_queue)} :
          /\ status_op' = g.item
          /\ operation_output_queue' = g.rest
    /\ relay_pc' = IF connected THEN "emitting" ELSE "idle"
    /\ UNCHANGED <<put_count, status_emitted, envvars, notrelay>>

\* client.emit of emit_status ends: the transport has the record, or emit
\* raised and emit_status logged it.
RelayEmitStatus ==
    \E emit_raises \in BOOLEAN :
        /\ relay_pc = "emitting"
        /\ status_emitted' = IF emit_raises THEN status_emitted
                             ELSE Append(status_emitted, status_op)
        /\ relay_pc' = "idle"
        /\ UNCHANGED <<operation_output_queue, put_count, status_op, envvars, notrelay>>

\* The callback thread enters emit_response: it returns at once when the
\* transport is not connected and calls client.emit otherwise.
EmitResponseBegin ==
    /\ req_pc = "emit_response"
    /\ req_pc' = IF connected THEN "emitting" ELSE "returned"
    /\ UNCHANGED <<req_kind, pending_response, received, response_events, envvars,
                   notreq>>

\* client.emit of emit_response ends.
EmitResponseEnd ==
    \E emit_raises \in BOOLEAN :
        /\ req_pc = "emitting"
        /\ response_events' = response_events + emit_response(TRUE, emit_raises)
        /\ req_pc' = "returned"
        /\ UNCHANGED <<req_kind, pending_response, received, envvars, notreq>>

NextRelay ==
    \/ OperationPuts
    \/ RelayGetStatus
    \/ RelayEmitStatus
    \/ TransportDisconnect
    \/ TransportConnect

\* The operations' threads putting records and the relay thread emitting
\* them, with the transport dropping and returning at any time.
InitSpecRelay == InitSpecOps /\ mav_ready

SpecRelay == InitSpecRelay /\ [][NextRelay]_vars

NextTransport ==
    \/ OperationPuts
    \/ RelayGetStatus
    \/ RelayEmitStatus
    \/ OnRequest
    \/ EmitResponseBegin
    \/ EmitResponseEnd
    \/ TransportDisconnect
    \/ TransportConnect

\* The threads that emit on the transport: the relay thread with the records
\* of the operations' threads, and the transport's callback thread with the
\* responses, each emit taking time.
InitSpecTransport == InitSpecOps /\ mav_ready

SpecTransport == InitSpecTransport /\ [][NextTransport]_vars

\* ------------------------------------------------- claims on BufferManager

\* Strictly increasing arrival ranks: the records are in arrival order.
InArrivalOrder(s) == \A i, j \in 1..Len(s) : i < j => s[i] < s[j]

\* C1: after every add_message the buffer holds at most buffer_size records,
\* and they are the most recent min(k, buffer_size) of the k records added
\* since the buffer was last empty by construction or clear, oldest first:
\* on overflow exactly the oldest record went.
C1_BoundedFifo ==
    LET m == Min(since_clear, buffer_size)
    IN  /\ Len(buffer) <= buffer_size
        /\ buffer = [i \in 1..m |-> arrived - m + i]

\* C1 witness: an add_message has just overflowed a two-record buffer and the
\* oldest record is the one missing.
C1_Witness ==
    /\ call.op = "add_message"
    /\ buffer_size = 2
    /\ since_clear = 3
    /\ buffer = <<arrived - 1, arrived>>

\* C2: a step that emits a mavlink_message emits the whole buffer as it is,
\* in arrival order, and leaves the buffer empty; and a record leaves the
\* buffer only in such a step or as the oldest record of a full buffer into
\* which add_message appends.
C2_FlushCarriesBuffer ==
    [][ /\ emitted' # emitted =>
              /\ emitted' = Append(emitted, buffer)
              /\ InArrivalOrder(buffer)
              /\ buffer # <<>>
              /\ buffer' = <<>>
        /\ \A r \in Range(buffer) \ Range(buffer') :
              \/ /\ emitted' = Append(emitted, buffer)
                 /\ buffer' = <<>>
              \/ /\ r = Head(buffer)
                 /\ Len(buffer) = buffer_size
                 /\ buffer' = Append(Tail(buffer), arrived')
      ]_vars

\* C2 witness: flush_buffer has just emitted two records and emptied the buffer.
C2_Witness ==
    /\ call = [op |-> "flush_buffer", ret |-> TRUE]
    /\ buffer = <<>>
    /\ emitted # <<>>
    /\ Len(emitted[Len(emitted)]) = 2
    /\ last_msg_time = now

\* C3: a mavlink_message is emitted only by flush_buffer while client.connected
\* holds; a flush_buffer that finds the transport disconnected, or whose emit
\* raises (it returns False), leaves buffer and last_msg_time as they were
\* and emits nothing.
C3_FailedFlushKeepsBuffer ==
    [][ /\ emitted' # emitted => (connected /\ FlushBuffer)
        /\ (FlushBuffer /\ (~connected \/ ~call'.ret)) =>
              /\ buffer' = buffer
              /\ last_msg_time' = last_msg_time
              /\ emitted' = emitted
      ]_vars

\* C3 witness: flush_buffer has just returned False on a full buffer, which is
\* still there.
C3_Witness ==
    /\ call = [op |-> "flush_buffer", ret |-> FALSE]
    /\ connected
    /\ Len(buffer) = 2
    /\ emitted = <<>>

\* C4: check_timeout returns true exactly when the buffer is non-empty and
\* more than flush_timeout has passed since the last add_message or
\* clear_buffer; it is false right after an add_message; and it changes
\* neither buffer nor last_msg_time.
C4_CheckTimeout ==
    [][ /\ CheckTimeout =>
              /\ call'.ret = ((buffer # <<>>) /\ (now - last_touch > flush_timeout))
              /\ buffer' = buffer
              /\ last_msg_time' = last_msg_time
        /\ AddMessage =>
              ~check_timeout(buffer', now', last_msg_time', flush_timeout')
      ]_vars

\* C4 witness: check_timeout has just returned true, the clock having passed
\* flush_timeout since the last record arrived.
C4_Witness ==
    /\ call = [op |-> "check_timeout", ret |-> TRUE]
    /\ buffer # <<>>
    /\ now - last_msg_time = flush_timeout + 1

\* ---------------------------------------------- claims on the link monitor

\* C5: a call of check_persistent_disconnect that returns while the accrued
\* _disconnect_duration is below _max_disconnect_time returns True.
C5_BelowThresholdHealthy ==
    [][ (CheckReturns /\ disconnect_duration' < max_disconnect_time)
            => call'.ret = TRUE ]_vars

\* C5 witness: a check has sampled the transport disconnected, accrued time
\* below the threshold and returned True.
C5_Witness ==
    /\ call = [op |-> "check_persistent_disconnect", ret |-> TRUE]
    /\ check_pc = "idle"
    /\ ~connected
    /\ disconnect_duration > 0
    /\ disconnect_duration < max_disconnect_time
    /\ last_check_time = now

\* C6 (as claimed): once check_persistent_disconnect has returned False, every
\* later call returns False.
C6_LostIsTerminal ==
    [][ (lost_reported /\ CheckReturns) => call'.ret = FALSE ]_vars

\* C7 (as claimed): a check that samples the transport connected sets
\* _disconnect_duration to zero, and nothing else brings it to zero.
C7_ResetOnlyByCheck ==
    [][ /\ CheckConnected => disconnect_duration' = 0
        /\ (disconnect_duration # 0 /\ disconnect_duration' = 0) => CheckConnected
      ]_vars

\* C7 (amended): a check that samples the transport connected sets
\* _disconnect_duration to zero, and it is brought to zero only by such a
\* check or by the connect callback _on_connect.
C7_ResetByCheckOrConnect ==
    [][ /\ CheckConnected => disconnect_duration' = 0
        /\ (disconnect_duration # 0 /\ disconnect_duration' = 0)
              => (CheckConnected \/ OnConnect)
      ]_vars

\* C7 witness: after the threshold had been reached the transport came back,
\* and before its connect callback ran a check sampled it connected and
\* zeroed the duration.
C7_Witness ==
    /\ call = [op |-> "check_persistent_disconnect", ret |-> TRUE]
    /\ lost_reported
    /\ connected
    /\ connect_event
    /\ disconnect_duration = 0
    /\ last_check_time = now

\* C8 (as claimed): the accrued _disconnect_duration never exceeds the time
\* the transport really spent disconnected since a check last saw it
\* connected, and when a check has returned False that time is at least
\* _max_disconnect_time.
C8_AccrualWithinRealTime ==
    /\ disconnect_duration <= real_disconnected
    /\ call = [op |-> "check_persistent_disconnect", ret |-> FALSE]
          => real_disconnected >= max_disconnect_time

\* -------------------------------------- claims on the operation supervisor

C10_RegisteredUntilStopped ==
    [][ /\ (HandleStartOperation /\ response'.success) =>
              /\ response'.id \in DOMAIN active_operations'
              /\ active_operations'[response'.id] = created'
        /\ \A id \in DOMAIN active_operations :
              (id \notin DOMAIN active_operations'
                  \/ active_operations'[id] # active_operations[id])
                  => (HandleStopOperation /\ response'.id = id)
      ]_vars

\* C11 (as claimed): a successful start never replaces or hides an instance
\* that is registered and running: every id that addressed a running
\* instance before the start still addresses the same instance after it.
C11_StartKeepsRunningInstances ==
    [][ (response'.handler = "start" /\ response'.success /\ HandleStartOperation)
            => \A id \in DOMAIN active_operations :
                  active_operations[id] \in running
                      => /\ id \in DOMAIN active_operations'
                         /\ active_operations'[id] = active_operations[id]
      ]_vars

\* C12 (as claimed): when the instance's stop() raises during a stop request,
\* the response is a failure and the id is no longer in active_operations.
C12_RaisingStopStillRemoves ==
    [][ (response'.handler = "stop" /\ response'.error = "Internal bridge error"
            /\ HandleStopOperation)
            => /\ ~response'.success
               /\ response'.id \notin DOMAIN active_operations'
      ]_vars

\* C13: a stop request for an id that is not in active_operations returns
\* success False with that id and 'Operation ID not found.', invokes no
\* instance's stop(), stops no thread and leaves active_operations unchanged.
C13_UnknownIdStop ==
    [][ (response'.handler = "stop"
            /\ stop_op_id(request'.id) \notin DOMAIN active_operations
            /\ HandleStopOperation)
            => /\ response' = [handler |-> "stop", success |-> FALSE,
                               id |-> stop_op_id(request'.id),
                               error |-> "Operation ID not found."]
               /\ stop_calls' = stop_calls
               /\ running' = running
               /\ active_operations' = active_operations
      ]_vars

\* C13 witness: operation "a" was started and stopped, "b" is registered,
\* and a second stop request for "a" has just been refused.
C13_Witness ==
    /\ request = [operation_name |-> Absent, id |-> "a"]
    /\ response = [handler |-> "stop", success |-> FALSE, id |-> "a",
                   error |-> "Operation ID not found."]
    /\ DOMAIN active_operations = {"b"}
    /\ active_operations["b"] = 2
    /\ stop_calls = {1}
    /\ running = {2}

\* ----------------------------------------------- claims on the shutdown

\* C14 (as claimed): when main has ended, stop() has been invoked on every
\* instance in active_operations, the transport disconnect has been called,
\* and no instance is running on which stop() was never invoked.
C14_ShutdownStopsEveryInstance ==
    main_pc \in {"exited", "crashed"}
        => /\ Values(active_operations) \subseteq stop_calls
           /\ disconnect_called
           /\ running \subseteq stop_calls

\* C15 (as claimed): an instance leaves active_operations only after its
\* stop() has been invoked and has not raised, and with its background
\* thread no longer running.
C15_RemovedOnlyWhenCeased ==
    [][ \A id \in DOMAIN active_operations :
            (id \notin DOMAIN active_operations'
                \/ active_operations'[id] # active_operations[id])
                => /\ active_operations[id] \in stop_calls'
                   /\ active_operations[id] \notin running'
      ]_vars

\* C17 (as claimed): the relay loop is left only on a fatal loss reported by
\* the link monitor or on the MAVLink handler's permanent failure (so not by
\* a request handler and not by an exception in an iteration), and when main
\* has ended stop() has been invoked on every registered instance and the
\* transport disconnect has been called.
C17_LoopEndsOnlyOnFatalThenShutsDown ==
    /\ main_pc # "loop" => exit_reason \in {"link_lost", "permanent_failure"}
    /\ main_pc \in {"exited", "crashed"}
          => /\ Values(active_operations) \subseteq stop_calls
             /\ disconnect_called

\* ------------------------------------------- claims on the request callbacks

\* C16 (as claimed): when the callback of a request event has returned,
\* exactly one response event has been emitted for that request, and never
\* more than one is.
C16_ExactlyOneResponse ==
    /\ response_events <= 1
    /\ (received > 0 /\ req_pc = "returned") => response_events = 1

\* ------------------------------------------------ claims on TargetManager

\* C18: no two records of the output queue name the same target, and a
\* target has a record from the very cycle in which its confirmation counter
\* was first at least confirmation_frames: not before, not later.
C18_ReportedOnceWhenConfirmed ==
    /\ \A i, j \in 1..Len(output_queue) :
          i # j => output_queue[i].target_id # output_queue[j].target_id
    /\ {output_queue[i].target_id : i \in 1..Len(output_queue)} = confirmed

\* C18 witness: a target was reported, was observed again in a later cycle,
\* and the queue still holds its one record.
C18_Witness ==
    /\ confirmation_frames = 2
    /\ output_queue = <<[target_id |-> 1]>>
    /\ \E i \in 1..Len(targets) :
          /\ targets[i].id = 1
          /\ targets[i].is_reported
          /\ targets[i].frames_unseen = 0
          /\ targets[i].confirmation_counter > confirmation_frames

\* C19 (as claimed): from the empty target set, while every cycle so far
\* carried one detection with a fix at one and the same pixel, the output
\* queue is empty before cycle confirmation_frames and holds exactly one
\* record after it.
C19_ConfirmedAfterExactlyNCycles ==
    (confirmation_frames >= 1 /\ unseen_frames_threshold >= 1 /\ ~streak_broken)
        => /\ streak < confirmation_frames => Len(output_queue) = 0
           /\ streak = confirmation_frames => Len(output_queue) = 1

\* The detections of a frame that have a fix.
WithFix(dets) == SelectSeq(dets, LAMBDA d : d.fix)

\* C20 (as claimed): every target's confirmation counter is at least 1 and at
\* most confirmation_frames, and no update cycle lowers the counter of a
\* target it keeps.
C20_CounterWithinThreshold ==
    /\ [](\A i \in 1..Len(targets) :
            /\ targets[i].confirmation_counter >= 1
            /\ targets[i].confirmation_counter <= confirmation_frames)
    /\ [][\A i \in 1..Len(targets), j \in 1..Len(targets') :
            targets'[j].id = targets[i].id
                => targets'[j].confirmation_counter >= targets[i].confirmation_counter
         ]_vars

\* C21 (as claimed): after an update cycle a target that a detection of the
\* cycle updated or created has frames_unseen 0, and a target that none did
\* has its frames_unseen of before the cycle plus one.
C21_FramesUnseenResetOrPlusOne ==
    /\ [](\A i \in 1..Len(targets) :
            targets[i].id \in DOMAIN touches => targets[i].frames_unseen = 0)
    /\ [][\A i \in 1..Len(targets), j \in 1..Len(targets') :
            (targets'[j].id = targets[i].id /\ targets[i].id \notin DOMAIN touches')
                => targets'[j].frames_unseen = targets[i].frames_unseen + 1
         ]_vars

\* C22 (as claimed): a target tracked before an update cycle is gone after it
\* if and only if no detection of the cycle was associated with it and its
\* frames_unseen, incremented, exceeds unseen_frames_threshold.
C22_DroppedIffExceeds ==
    [][\A i \in 1..Len(targets) :
            (targets[i].id \notin TargetIds(targets'))
                <=> /\ targets[i].id \notin DOMAIN touches'
                    /\ targets[i].frames_unseen + 1 > unseen_frames_threshold
      ]_vars

\* C23: a target with no detection for more than unseen_frames_threshold
\* consecutive cycles is not tracked any more; a target that appears in the
\* set has an id never used before, starts at counter 1 when one detection
\* created it, and is_reported only with a counter of at least
\* confirmation_frames.
C23_DroppedThenConfirmedAnew ==
    /\ [](\A id \in 1..next_id :
            absent[id] > unseen_frames_threshold => id \notin TargetIds(targets))
    /\ [](\A i \in 1..Len(targets) :
            targets[i].is_reported
                => targets[i].confirmation_counter >= confirmation_frames)
    /\ [][\A j \in 1..Len(targets') :
            targets'[j].id \notin TargetIds(targets)
                => /\ targets'[j].id > next_id
                   /\ touches'[targets'[j].id] = 1
                         => targets'[j].confirmation_counter = 1
         ]_vars

\* C23 witness: the target created first, at streak_pixel, has had no
\* detection for more than unseen_frames_threshold cycles and is gone; a
\* detection at the same pixel has created target 2, which is at counter 1
\* and, of two confirmations needed, not reported.
C23_Witness ==
    /\ streak = 1
    /\ confirmation_frames = 2
    /\ next_id = 2
    /\ absent[1] > unseen_frames_threshold
    /\ Len(targets) = 1
    /\ targets[1].id = 2
    /\ targets[1].last_pixel_coords = streak_pixel
    /\ targets[1].confirmation_counter = 1
    /\ ~targets[1].is_reported
    /\ output_queue = <<>>

\* C24: in every state, a frame's detections give the same targets, the same
\* updated_targets_in_frame and the same new targets as the frame without
\* its detections that have no fix; and a target within the threshold of a
\* detection without fix that no other detection updated leaves the cycle
\* with frames_unseen one higher and nothing else of the detection changed.
C24_NoFixNoEffect ==
    /\ [](\A dets \in DetectionLists(frame_width) :
            associate(dets, 1, targets, {}, << >>, next_id,
                      pixel_distance_threshold, confirmation_frames)
              = associate(WithFix(dets), 1, targets, {}, << >>, next_id,
                          pixel_distance_threshold, confirmation_frames))
    /\ [][\A i \in 1..Len(targets), j \in 1..Len(targets') :
            (/\ targets'[j].id = targets[i].id
             /\ targets[i].id \in discarded'
             /\ targets[i].id \notin DOMAIN touches')
                => targets'[j] = [targets[i] EXCEPT !.frames_unseen = @ + 1,
                                     !.is_reported = @ \/ should_report(targets[i], confirmation_frames)]
         ]_vars

\* C24 witness: a detection without fix of the last cycle was within the
\* threshold of a tracked target, which no detection updated and which was
\* aged in that cycle.
C24_Witness ==
    \E i \in 1..Len(targets) :
        /\ targets[i].id \in discarded
        /\ targets[i].id \notin DOMAIN touches
        /\ absent[targets[i].id] >= 1
        /\ targets[i].frames_unseen >= 1

\* C29: in every state and for every detection with a fix, the target
\* associated with it is none exactly when no target is at a distance below
\* pixel_distance_threshold, and otherwise the nearest of those targets, the
\* earliest in the list among equally near ones; with none, the detection
\* appends a new target at counter 1 and leaves every existing target as it
\* was, and with one, it updates that target and no other.
C29_NearestWithinThreshold ==
    \A pixel \in Pixels(frame_width) :
        LET near == {i \in 1..Len(targets) :
                        Dist2(targets[i].last_pixel_coords, pixel)
                            < pixel_distance_threshold * pixel_distance_threshold}
            closest == find_closest_target(targets, pixel, pixel_distance_threshold)
            a == associate(<<[pixel |-> pixel, fix |-> TRUE]>>, 1, targets, {}, << >>,
                           next_id, pixel_distance_threshold, confirmation_frames)
        IN  /\ closest = 0 <=> near = {}
            /\ closest # 0 =>
                  /\ closest \in near
                  /\ \A i \in near :
                        /\ Dist2(targets[closest].last_pixel_coords, pixel)
                              <= Dist2(targets[i].last_pixel_coords, pixel)
                        /\ Dist2(targets[closest].last_pixel_coords, pixel)
                              = Dist2(targets[i].last_pixel_coords, pixel) => closest <= i
                  /\ Len(a.targets) = Len(targets)
                  /\ \A i \in 1..Len(targets) : i # closest => a.targets[i] = targets[i]
                  /\ a.targets[closest].id = targets[closest].id
                  /\ a.targets[closest].last_pixel_coords = pixel
                  /\ a.updated = {targets[closest].id}
            /\ closest = 0 =>
                  /\ Len(a.targets) = Len(targets) + 1
                  /\ \A i \in 1..Len(targets) : a.targets[i] = targets[i]
                  /\ a.targets[Len(targets) + 1].confirmation_counter = 1
                  /\ a.targets[Len(targets) + 1].last_pixel_coords = pixel
                  /\ a.targets[Len(targets) + 1].id \notin TargetIds(targets)
                  /\ a.updated = {}

\* C29 witness: targets 1 and 2 were created in one frame at pixels 0 and 2,
\* two apart with a threshold of 2, and the next frame had a detection at
\* pixel 1, equally near to both, that updated target 1, the earlier one,
\* and a detection at pixel 2 that updated target 2.
C29_Witness ==
    /\ pixel_distance_threshold = 2
    /\ next_id = 2
    /\ Len(targets) = 2
    /\ targets[1].id = 1
    /\ targets[1].last_pixel_coords = <<1, 0>>
    /\ targets[1].confirmation_counter = 2
    /\ targets[2].id = 2
    /\ targets[2].last_pixel_coords = <<2, 0>>
    /\ targets[2].confirmation_counter = 2
    /\ touches = (1 :> 1) @@ (2 :> 1)

\* C30 (as claimed): a start request that names a shipped class while the
\* link is ready, whose constructor and start() have no failure of their
\* own, is answered with success: it does not fail at instantiation.
C30_ShippedClassesInstantiate ==
    [][\A op_name \in {"color_tracker", "serial_listener"}, id \in Ids \cup {Absent} :
            (mav_ready /\ StartOperation(op_name, id, FALSE, "true"))
                => response'.success
      ]_vars

\* ------------------------------------------------- claims on the emission

\* C25: no record is among the emitted status records twice, the records of
\* one operation are emitted in the order in which it put them, and every
\* emitted record is one that the operation has put.
C25_AtMostOnceInOrder ==
    /\ \A i \in 1..Len(status_emitted), j \in 1..Len(status_emitted) :
            i < j =>
                /\ status_emitted[i] # status_emitted[j]
                /\ status_emitted[i].source = status_emitted[j].source
                      => status_emitted[i].seq < status_emitted[j].seq
    /\ \A i \in 1..Len(status_emitted) :
            status_emitted[i].seq \in 1..put_count[status_emitted[i].source]

\* C25 witness: two operations have put two records each, interleaved; the
\* relay loop has taken all four and emitted three of them, the second
\* record of operation a being lost between the two of operation b.
C25_Witness ==
    /\ put_count = [id \in Ids |-> 2]
    /\ operation_output_queue = <<>>
    /\ relay_pc = "idle"
    /\ status_emitted = <<[source |-> "a", seq |-> 1], [source |-> "b", seq |-> 1],
                          [source |-> "b", seq |-> 2]>>
    /\ status_op = [source |-> "b", seq |-> 2]

\* C26 (as claimed): the relay thread and the transport's callback thread
\* are never both inside client.emit, and the callback thread never is.
C26_SingleWriter ==
    /\ ~(relay_pc = "emitting" /\ req_pc = "emitting")
    /\ req_pc # "emitting"

\* ------------------------------------- claims on the operation instances

\* C27 (as claimed): once the loop has been left on a read failure and a
\* stop() called after that has returned, the port or capture is not open.
C27_ReleasedAfterReadFailure ==
    (/\ exit_cause = "read_failure"
     /\ op_thread = "dead"
     /\ stopped_after_failure
     /\ stop_pc = "idle")
        => ~resource_open

\* C28 (as claimed): start() returns false exactly when the operation is
\* running already or its device cannot be opened, and an operation whose
\* device could not be opened has not been reported as started.
C28_StartRefusesWithoutDevice ==
    /\ [][OperationStart =>
            (start_returned' = "false" <=> (is_running \/ ~device_available))]_vars
    /\ [](exit_cause = "open_failure" => start_returned # "true")

\* ------------------------------------- further claims on TargetManager

\* C31 (as claimed): over one update cycle the confirmation counter of a
\* target tracked before it rises by at most one, a target new after it has
\* a counter of at most 1, and a record is put only for a target whose
\* counter was at least confirmation_frames - 1 before the cycle.
C31_CounterAdvancesOncePerCycle ==
    [][/\ \A j \in 1..Len(targets') :
            /\ \A i \in 1..Len(targets) :
                  targets'[j].id = targets[i].id
                      => targets'[j].confirmation_counter
                             <= targets[i].confirmation_counter + 1
            /\ targets'[j].id \notin TargetIds(targets)
                  => targets'[j].confirmation_counter <= 1
       /\ \A k \in (Len(output_queue) + 1)..Len(output_queue') :
            \/ confirmation_frames <= 1
            \/ \E i \in 1..Len(targets) :
                  /\ targets[i].id = output_queue'[k].target_id
                  /\ targets[i].confirmation_counter >= confirmation_frames - 1
      ]_vars

\* ------------------------------------------ further claims on the relay

\* C32 (as claimed): every record an operation has put is still in the
\* output queue, or is being emitted by the relay thread, or has been
\* emitted.
C32_NoResultLost ==
    \A id \in Ids :
        \A n \in 1..put_count[id] :
            LET record == [source |-> id, seq |-> n]
            IN  \/ record \in Range(operation_output_queue)
                \/ relay_pc = "emitting" /\ status_op = record
                \/ record \in Range(status_emitted)

\* ---------------------------------- further claims on the link monitor

\* The transport is disconnected with no connect callback pending, the relay
\* loop is between two checks, and the clock has enough of its range left
\* for the disconnected time to reach max_disconnect_time.
DisconnectedWithTimeLeft ==
    /\ ~connected
    /\ ~connect_event
    /\ main_pc = "loop"
    /\ check_pc = "idle"
    /\ disconnect_duration + (MaxTime - check_interval - last_check_time)
          >= max_disconnect_time

\* C33: from a state in which the transport is disconnected with time left,
\* either the transport is connected again at some time, or
\* check_persistent_disconnect returns False and the relay loop is left for
\* the shutdown procedure with the reason link_lost.
C33_PersistentDisconnectEndsLoop ==
    DisconnectedWithTimeLeft
        ~> \/ connected
           \/ /\ lost_reported
              /\ main_pc \in {"stopping", "exited"}
              /\ exit_reason = "link_lost"

\* C33 witness: the transport has been disconnected for at least
\* max_disconnect_time, the check has returned False and main has left the
\* loop and ended after the shutdown procedure.
C33_Witness ==
    /\ lost_reported
    /\ real_disconnected >= max_disconnect_time
    /\ max_disconnect_time = MaxDisconnectTime
    /\ exit_reason = "link_lost"
    /\ main_pc = "exited"
    /\ disconnect_called

\* ------------------------------- further claims on the telemetry buffer

\* The transport is connected, the buffer holds records, no further record
\* arrives, and the clock has enough of its range left for the flush
\* timeout to pass.
BufferedWithTimeLeft ==
    /\ connected
    /\ buffer # <<>>
    /\ arrived = MaxRecords
    /\ MaxTime - last_msg_time > flush_timeout

\* The buffer is empty and the newest record is in the mavlink_message
\* emitted last.
NewestEmitted ==
    /\ buffer = <<>>
    /\ emitted # <<>>
    /\ arrived \in Range(emitted[Len(emitted)])

\* C34: from a state in which the transport is connected and the buffer
\* holds records with time left, either the transport drops again or the
\* buffer is emitted; a record whose arrival fills the buffer while the
\* transport is connected is emitted with the buffer in the same pass
\* unless client.emit raises; and no record is in two emitted messages.
C34_BufferedTelemetryNotStranded ==
    /\ BufferedWithTimeLeft ~> (~connected \/ NewestEmitted)
    /\ [][(RelayTelemetry /\ connected
                /\ add_message_return(add_message_buffer(buffer, arrived + 1, buffer_size),
                                      buffer_size))
            => \/ call' = [op |-> "flush_buffer", ret |-> FALSE]
               \/ /\ buffer' = <<>>
                  /\ emitted' = Append(emitted,
                         add_message_buffer(buffer, arrived + 1, buffer_size))
         ]_vars
    /\ [](\A i \in 1..Len(emitted), j \in 1..Len(emitted) :
            i < j => Range(emitted[i]) \cap Range(emitted[j]) = {})

\* C34 witness: records were buffered while the transport was down, up to
\* the capacity and beyond it; after the reconnection no record arrived and
\* the timeout flushed the newest buffer_size records in one message.
C34_Witness ==
    /\ connected
    /\ connect_event
    /\ buffer_size = 2
    /\ arrived = 3
    /\ buffer = <<>>
    /\ emitted = << <<2, 3>> >>
    /\ call = [op |-> "flush_buffer", ret |-> TRUE]
    /\ now - last_touch = 0
    /\ real_disconnected >= 1

====
